---- MODULE Spec2Model ----
(***************************************************************************)
(* The image-optimization endpoint of server.js                            *)
(*   GET /optimize/:imageName?width=W&height=H&quality=Q&format=F          *)
(* as a state machine: the cache directory ./cache, the source directory   *)
(* ./public, and one process per request in flight.  A request advances    *)
(* from one await to the next; the code between two awaits runs to         *)
(* completion on the single JavaScript thread and is one action.           *)
(*                                                                         *)
(* Representation of data:                                                 *)
(*   - a query value and an image name are sequences of one-character      *)
(*     strings, so that parseInt and a search for ".." read characters;    *)
(*     <<>> is an absent (or empty) query value;                           *)
(*   - a byte buffer is a sequence of blocks; a block is a tuple.  An      *)
(*     encoded image is a header block <<container>> followed by a data    *)
(*     block <<source, width, height, quality>>; <<>> is a zero-filled     *)
(*     block (a hole in a file).                                           *)
(***************************************************************************)
EXTENDS Integers, Sequences, FiniteSets, TLC

\* Number of requests the server handles in one behaviour.
NumRequests == 2

Requests == 1..NumRequests

(***************************************************************************)
(* Strings                                                                 *)
(***************************************************************************)

\* The JavaScript string spelled by a sequence of characters.
RECURSIVE Str(_)
Str(cs) == IF cs = <<>> THEN "" ELSE Head(cs) \o Str(Tail(cs))

DecDigits == {"0", "1", "2", "3", "4", "5", "6", "7", "8", "9"}

DigitValue(c) ==
    CASE c = "0" -> 0 [] c = "1" -> 1 [] c = "2" -> 2 [] c = "3" -> 3
      [] c = "4" -> 4 [] c = "5" -> 5 [] c = "6" -> 6 [] c = "7" -> 7
      [] c = "8" -> 8 [] c = "9" -> 9

\* Length of the longest prefix of cs made of decimal digits.
RECURSIVE DigitPrefixLen(_)
DigitPrefixLen(cs) ==
    IF cs # <<>> /\ Head(cs) \in DecDigits
    THEN 1 + DigitPrefixLen(Tail(cs))
    ELSE 0

\* Value of a sequence of decimal digits, most significant first.
RECURSIVE DigitsValue(_, _)
DigitsValue(cs, acc) ==
    IF cs = <<>> THEN acc
    ELSE DigitsValue(Tail(cs), 10 * acc + DigitValue(Head(cs)))

RECURSIVE SkipSpaces(_)
SkipSpaces(cs) ==
    IF cs # <<>> /\ Head(cs) = " " THEN SkipSpaces(Tail(cs)) ELSE cs

NaN == [nan |-> TRUE, val |-> 0]

\* Number.parseInt(v) with no radix, for decimal input: leading blanks are
\* skipped, one sign is read, then the longest run of digits; anything after
\* it is ignored.  No digit (also an absent value, which parseInt reads as
\* the string "undefined") gives NaN.
ParseInt(v) ==
    LET s      == SkipSpaces(v)
        neg    == s # <<>> /\ Head(s) = "-"
        signed == s # <<>> /\ Head(s) \in {"-", "+"}
        body   == IF signed THEN Tail(s) ELSE s
        n      == DigitPrefixLen(body)
        mag    == DigitsValue(SubSeq(body, 1, n), 0)
    IN  IF n = 0 THEN NaN
        ELSE [nan |-> FALSE, val |-> IF neg THEN 0 - mag ELSE mag]

\* x ?? d  in place of  x || d : only a missing number takes the default.
OrDefaultUnlessZero(x, d) == IF x.nan THEN d ELSE x.val

\* JavaScript's  x || d  for a number x: NaN and 0 are falsy.
OrDefault(x, d) == IF x.nan \/ x.val = 0 THEN d ELSE x.val

\* JavaScript's  s || d  for a string s: the empty string is falsy.
OrDefaultStr(s, d) == IF s = "" THEN d ELSE s

(***************************************************************************)
(* generateCacheKey                                                        *)
(***************************************************************************)

\* crypto.createHash("md5")...digest("hex"), taken as collision-free on the
\* byte stream it is fed: the digest of a stream is named by the stream.
Md5Hex(stream) == "md5<" \o stream \o ">"

\* Successive update() calls append to one stream, with no separator.
generateCacheKey(originalName, width, height, quality, format) ==
    LET hash == Md5Hex(originalName \o ToString(width) \o ToString(height)
                         \o ToString(quality) \o format)
    IN  hash \o "." \o format

\* validFormats with one token too many.
validFormatsWithBmp == {"jpg", "jpeg", "png", "webp", "bmp"}

validFormats == {"jpg", "jpeg", "png", "webp"}

(***************************************************************************)
(* Buffers and files                                                       *)
(***************************************************************************)

\* A zero-filled block: what a file holds where nothing was written yet.
Hole == <<>>

\* A text body as a buffer of one block.
Text(s) == << <<s>> >>

Max(a, b) == IF a >= b THEN a ELSE b

\* write(fd, chunk) at file offset pos: the file is extended with zeros up to
\* pos when it is shorter, the chunk replaces what it covers, and what lies
\* beyond the chunk is kept.
WriteAt(data, pos, chunk) ==
    [i \in 1..Max(Len(data), pos + Len(chunk)) |->
        IF i > pos /\ i <= pos + Len(chunk) THEN chunk[i - pos]
        ELSE IF i <= Len(data) THEN data[i]
        ELSE Hole]

(***************************************************************************)
(* The sharp pipeline                                                      *)
(***************************************************************************)

\* a / b rounded to the nearest integer, for a >= 0 and b > 0.
RoundDiv(a, b) == (2 * a + b) \div (2 * b)

\* resize(width, height, {fit: inside, withoutEnlargement: true}) of an image
\* of srcW x srcH pixels: the largest size of the same aspect ratio that fits
\* the box, and the source's own size when that would enlarge it.
ResizeInside(srcW, srcH, width, height) ==
    LET byWidth == width * srcH <= height * srcW
        w == IF byWidth THEN width ELSE Max(1, RoundDiv(srcW * height, srcH))
        h == IF byWidth THEN Max(1, RoundDiv(srcH * width, srcW)) ELSE height
    IN  IF w > srcW \/ h > srcH THEN <<srcW, srcH>> ELSE <<w, h>>

\* The switch on format: png(), webp({quality}), and jpeg({quality}) for
\* every other token.
Encoder(format) ==
    CASE format = "png"  -> "png"
      [] format = "webp" -> "webp"
      [] OTHER           -> "jpeg"

\* The options sharp checks when the pipeline is built, before any I/O:
\* resize() takes positive integers, jpeg() and webp() a quality in 1..100;
\* png() is given no option.  A bad option throws out of the call.
PipelineOptionsOk(width, height, quality, format) ==
    /\ width > 0
    /\ height > 0
    /\ Encoder(format) = "png" \/ quality \in 1..100

\* The bytes toBuffer() resolves to for a decodable source.
Encode(src, width, height, quality, format) ==
    LET size == ResizeInside(src.w, src.h, width, height)
        enc  == Encoder(format)
    IN  << <<enc>>,
           <<src.id, size[1], size[2], IF enc = "png" THEN 0 ELSE quality>> >>

(***************************************************************************)
(* Inputs                                                                  *)
(***************************************************************************)

\* The files reachable from ./public by name: an image inside the source
\* directory, a file there that is no image, and an image that lies outside
\* the source directory, named through "..".  Every other name is missing.
SourceFiles ==
    (<<"a">> :> [kind |-> "image", id |-> "a", w |-> 4, h |-> 2])
    @@ (<<"t">> :> [kind |-> "text", id |-> "t", w |-> 0, h |-> 0])
    @@ (<<".", ".", "/", "s">> :> [kind |-> "image", id |-> "s", w |-> 2, h |-> 2])

Query(name, w, h, q, f) ==
    [imageName |-> name, width |-> w, height |-> h, quality |-> q, format |-> f]

\* The requests a client sends.  An absent query parameter is <<>> (format: "").
Fixtures ==
    { Query(<<"a">>, <<>>, <<>>, <<>>, ""),
      Query(<<"a">>, <<>>, <<>>, <<>>, "jpeg"),
      Query(<<"a">>, <<"1">>, <<"2", "3">>, <<>>, "png"),
      Query(<<"a">>, <<"1", "2">>, <<"3">>, <<>>, "png"),
      Query(<<"a">>, <<"0">>, <<"x">>, <<"9", "x">>, "webp"),
      Query(<<"a">>, <<>>, <<>>, <<"9", "9", "9", "9", "9">>, "webp"),
      Query(<<"a">>, <<"-", "5">>, <<>>, <<>>, "jpg"),
      Query(<<"a">>, <<>>, <<>>, <<>>, "bmp"),
      Query(<<"m">>, <<>>, <<>>, <<>>, "png"),
      Query(<<"t">>, <<>>, <<>>, <<>>, "jpg"),
      Query(<<".", ".", "/", "s">>, <<>>, <<>>, <<>>, "png") }

NoQuery == Query(<<>>, <<>>, <<>>, <<>>, "")

(***************************************************************************)
(* State                                                                   *)
(***************************************************************************)

VARIABLES
    cache,      \* ./cache: file name -> content, for the files that exist
    public,     \* ./public: image name -> file, for the files that exist
    pc,         \* where each request stands
    query,      \* req.params and req.query of each request
    optimizedImageBuffer,  \* the result of toBuffer()
    position,   \* blocks of the buffer writeFile has written so far
    status,     \* HTTP status of the response sent, 0 before it is sent
    contentType,
    body,
    responses,      \* responses sent for the request
    cacheReads,     \* readFile calls on ./cache made for the request
    sourceReads,    \* reads of ./public made for the request
    pipelineRuns,   \* sharp pipelines built for the request
    cacheWrites,    \* open-for-write and write calls made for the request
    writeFileCalls, \* writeFile calls on ./cache made for the request
    readFailed,     \* the cache read failed on a file that exists
    writeFailed     \* the cache write failed

vars == <<cache, public, pc, query, optimizedImageBuffer, position, status,
          contentType, body, responses, cacheReads, sourceReads,
                   pipelineRuns,
          cacheWrites, writeFileCalls, readFailed, writeFailed>>

\* The handler's constants, lines 115-134.
imageName(r) == query[r].imageName
width(r)     == OrDefault(ParseInt(query[r].width), 800)
height(r)    == OrDefault(ParseInt(query[r].height), 600)
quality(r)   == OrDefault(ParseInt(query[r].quality), 80)
format(r)    == OrDefaultStr(query[r].format, "jpg")
cacheKey(r)  == generateCacheKey(Str(imageName(r)), width(r), height(r),
                                 quality(r), format(r))

Init ==
    /\ cache = << >>
    /\ public = SourceFiles
    /\ pc = [r \in Requests |-> "idle"]
    /\ query = [r \in Requests |-> NoQuery]
    /\ optimizedImageBuffer = [r \in Requests |-> <<>>]
    /\ position = [r \in Requests |-> 0]
    /\ status = [r \in Requests |-> 0]
    /\ contentType = [r \in Requests |-> ""]
    /\ body = [r \in Requests |-> <<>>]
    /\ responses = [r \in Requests |-> 0]
    /\ cacheReads = [r \in Requests |-> 0]
    /\ sourceReads = [r \in Requests |-> 0]
    /\ pipelineRuns = [r \in Requests |-> 0]
    /\ cacheWrites = [r \in Requests |-> 0]
    /\ writeFileCalls = [r \in Requests |-> 0]
    /\ readFailed = [r \in Requests |-> FALSE]
    /\ writeFailed = [r \in Requests |-> FALSE]

(***************************************************************************)
(* The handler                                                             *)
(***************************************************************************)

\* res.status(code).send(text), or res.send(buffer) with the default status.
Respond(r, code, type, bytes) ==
    /\ status' = [status EXCEPT ![r] = code]
    /\ contentType' = [contentType EXCEPT ![r] = type]
    /\ body' = [body EXCEPT ![r] = bytes]
    /\ responses' = [responses EXCEPT ![r] = @ + 1]
    /\ pc' = [pc EXCEPT ![r] = "done"]

\* An outer catch that sends the error's own text, as loadPage does.
RespondErrorStack(r) ==
    Respond(r, 500, "text/html", Text("Error: Input file is missing"))

\* The outer catch: line 170.
RespondError(r) == Respond(r, 500, "text/html", Text("Image processing error."))

\* Lines 115-137: the request is parsed, its format is checked against
\* validFormats, and the cache read is started.  Requests are numbered in
\* the order in which they arrive.
Receive(r, q) ==
    /\ pc[r] = "idle"
    /\ \A o \in Requests : o < r => pc[o] # "idle"
    /\ query' = [query EXCEPT ![r] = q]
    /\ IF OrDefaultStr(q.format, "jpg") \notin validFormats
       THEN Respond(r, 400, "text/html", Text("Invalid format"))
       ELSE /\ pc' = [pc EXCEPT ![r] = "readFile"]
            /\ UNCHANGED <<status, contentType, body, responses>>
    /\ UNCHANGED <<cache, public, optimizedImageBuffer, position, cacheReads,
                   sourceReads, pipelineRuns, cacheWrites, writeFileCalls,
                   readFailed,
                   writeFailed>>

\* A cache lookup that asks whether the file exists before it reads it.
CacheHitAfterAccess(r) ==
    /\ pc[r] = "readFile"
    /\ cacheKey(r) \in DOMAIN cache
    /\ cacheReads' = [cacheReads EXCEPT ![r] = @ + 2]
    /\ Respond(r, 200, "image/" \o format(r), cache[cacheKey(r)])
    /\ UNCHANGED <<cache, public, query, optimizedImageBuffer, position,
                   sourceReads, pipelineRuns, cacheWrites, writeFileCalls,
                   readFailed, writeFailed>>

\* Lines 137-139: readFile resolves with what the file holds at that moment,
\* and it is sent as it is.
CacheHit(r) ==
    /\ pc[r] = "readFile"
    /\ cacheKey(r) \in DOMAIN cache
    /\ cacheReads' = [cacheReads EXCEPT ![r] = @ + 1]
    /\ LET cachedImage == cache[cacheKey(r)]
       IN  Respond(r, 200, "image/" \o format(r), cachedImage)
    /\ UNCHANGED <<cache, public, query, optimizedImageBuffer, position,
                   sourceReads, pipelineRuns, cacheWrites, writeFileCalls,
                   readFailed,
                   writeFailed>>

\* Lines 140-161: the inner catch builds the pipeline.  sharp checks the
\* options as the calls are made; a bad one throws to the outer catch.
\* Otherwise toBuffer() is started.
BuildPipeline(r) ==
    /\ cacheReads' = [cacheReads EXCEPT ![r] = @ + 1]
    /\ pipelineRuns' = [pipelineRuns EXCEPT ![r] = @ + 1]
    /\ IF PipelineOptionsOk(width(r), height(r), quality(r), format(r))
       THEN /\ pc' = [pc EXCEPT ![r] = "toBuffer"]
            /\ UNCHANGED <<status, contentType, body, responses>>
       ELSE RespondError(r)
    /\ UNCHANGED <<cache, public, query, optimizedImageBuffer, position,
                   sourceReads, cacheWrites, writeFileCalls, writeFailed>>

\* readFile rejects because the file does not exist.
CacheMiss(r) ==
    /\ pc[r] = "readFile"
    /\ cacheKey(r) \notin DOMAIN cache
    /\ BuildPipeline(r)
    /\ UNCHANGED readFailed

\* An inner catch that takes only "no such file" for a miss and throws every
\* other error on to the outer catch.
CacheReadErrorRethrown(r) ==
    /\ pc[r] = "readFile"
    /\ cacheKey(r) \in DOMAIN cache
    /\ cacheReads' = [cacheReads EXCEPT ![r] = @ + 1]
    /\ readFailed' = [readFailed EXCEPT ![r] = TRUE]
    /\ RespondError(r)
    /\ UNCHANGED <<cache, public, query, optimizedImageBuffer, position,
                   sourceReads, pipelineRuns, cacheWrites, writeFileCalls,
                   writeFailed>>

\* readFile rejects on a file that exists (EACCES, EIO, EMFILE...): the same
\* catch takes it.
CacheReadError(r) ==
    /\ pc[r] = "readFile"
    /\ cacheKey(r) \in DOMAIN cache
    /\ BuildPipeline(r)
    /\ readFailed' = [readFailed EXCEPT ![r] = TRUE]

\* Lines 161-163: toBuffer() reads ./public/<imageName>, decodes, resizes
\* and encodes it.  It rejects, to the outer catch, when the file is missing
\* or is no image; otherwise writeFile is called with the buffer.
ToBuffer(r) ==
    /\ pc[r] = "toBuffer"
    /\ sourceReads' = [sourceReads EXCEPT ![r] = @ + 1]
    /\ IF imageName(r) \in DOMAIN public /\ public[imageName(r)].kind = "image"
       THEN /\ optimizedImageBuffer' =
                  [optimizedImageBuffer EXCEPT ![r] =
                      Encode(public[imageName(r)], width(r), height(r),
                             quality(r), format(r))]
            /\ writeFileCalls' = [writeFileCalls EXCEPT ![r] = @ + 1]
            /\ pc' = [pc EXCEPT ![r] = "open"]
            /\ UNCHANGED <<status, contentType, body, responses>>
       ELSE /\ RespondError(r)
            /\ UNCHANGED <<optimizedImageBuffer, writeFileCalls>>
    /\ UNCHANGED <<cache, public, query, position, cacheReads, pipelineRuns,
                   cacheWrites, readFailed, writeFailed>>

\* A writeFile on a path built from the image name alone, not from the key.
WriteOpenByName(r) ==
    /\ pc[r] = "open"
    /\ cache' = (Str(imageName(r)) :> <<>>) @@ cache
    /\ position' = [position EXCEPT ![r] = 0]
    /\ cacheWrites' = [cacheWrites EXCEPT ![r] = @ + 1]
    /\ pc' = [pc EXCEPT ![r] = "write"]
    /\ UNCHANGED <<public, query, optimizedImageBuffer, status, contentType,
                   body, responses, cacheReads, sourceReads, pipelineRuns,
                   readFailed, writeFailed, writeFileCalls>>

\* Line 163, writeFile, first step: the file is opened with flag "w", which
\* creates it or truncates it to nothing.
WriteOpen(r) ==
    /\ pc[r] = "open"
    /\ cache' = (cacheKey(r) :> <<>>) @@ cache
    /\ position' = [position EXCEPT ![r] = 0]
    /\ cacheWrites' = [cacheWrites EXCEPT ![r] = @ + 1]
    /\ pc' = [pc EXCEPT ![r] = "write"]
    /\ UNCHANGED <<public, query, optimizedImageBuffer, status, contentType,
                   body, responses, cacheReads, sourceReads, pipelineRuns,
                   readFailed,
                   writeFailed,
                   writeFileCalls>>

\* A write loop that takes every write() to be complete: of the n blocks it
\* counts as written, only the first reaches the file.
WriteDataUnretried(r, n) ==
    /\ pc[r] = "write"
    /\ n \in 1..(Len(optimizedImageBuffer[r]) - position[r])
    /\ cacheKey(r) \in DOMAIN cache
    /\ cache' = [cache EXCEPT ![cacheKey(r)] =
                    WriteAt(@, position[r],
                            SubSeq(optimizedImageBuffer[r], position[r] + 1,
                                   position[r] + 1))]
    /\ position' = [position EXCEPT ![r] = @ + n]
    /\ cacheWrites' = [cacheWrites EXCEPT ![r] = @ + 1]
    /\ UNCHANGED <<public, pc, query, optimizedImageBuffer, status,
                   contentType, body, responses, cacheReads, sourceReads,
                   pipelineRuns,
                   readFailed, writeFailed,
                   writeFileCalls>>

\* writeFile, next steps: write() puts n >= 1 of the remaining blocks at the
\* descriptor's own offset and is called again until none remains.
WriteData(r, n) ==
    /\ pc[r] = "write"
    /\ n \in 1..(Len(optimizedImageBuffer[r]) - position[r])
    /\ cacheKey(r) \in DOMAIN cache
    /\ cache' = [cache EXCEPT ![cacheKey(r)] =
                    WriteAt(@, position[r],
                            SubSeq(optimizedImageBuffer[r], position[r] + 1,
                                   position[r] + n))]
    /\ position' = [position EXCEPT ![r] = @ + n]
    /\ cacheWrites' = [cacheWrites EXCEPT ![r] = @ + 1]
    /\ UNCHANGED <<public, pc, query, optimizedImageBuffer, status,
                   contentType, body, responses, cacheReads, sourceReads,
                   pipelineRuns,
                   readFailed, writeFailed,
                   writeFileCalls>>

\* A rejection of writeFile that no catch takes: the request is left without
\* a response.
WriteErrorUncaught(r) ==
    /\ \/ pc[r] = "open"
       \/ pc[r] = "write" /\ position[r] < Len(optimizedImageBuffer[r])
    /\ writeFailed' = [writeFailed EXCEPT ![r] = TRUE]
    /\ pc' = [pc EXCEPT ![r] = "rejected"]
    /\ UNCHANGED <<cache, public, query, optimizedImageBuffer, position,
                   status, contentType, body, responses, cacheReads,
                   sourceReads, pipelineRuns, cacheWrites, writeFileCalls,
                   readFailed>>

\* writeFile rejects (ENOENT or EACCES at open, ENOSPC or EIO at a write):
\* the rejection leaves the inner catch for the outer one, and the file
\* keeps what was written so far.
WriteError(r) ==
    /\ \/ pc[r] = "open"
       \/ pc[r] = "write" /\ position[r] < Len(optimizedImageBuffer[r])
    /\ writeFailed' = [writeFailed EXCEPT ![r] = TRUE]
    /\ RespondError(r)
    /\ UNCHANGED <<cache, public, query, optimizedImageBuffer, position,
                   cacheReads, sourceReads, pipelineRuns, cacheWrites,
                   writeFileCalls,
                   readFailed>>

\* Lines 163-166: writeFile resolves once every block is written, and the
\* buffer is sent.
WriteDone(r) ==
    /\ pc[r] = "write"
    /\ position[r] = Len(optimizedImageBuffer[r])
    /\ Respond(r, 200, "image/" \o format(r), optimizedImageBuffer[r])
    /\ UNCHANGED <<cache, public, query, optimizedImageBuffer, position,
                   cacheReads, sourceReads, pipelineRuns, cacheWrites,
                   writeFileCalls,
                   readFailed, writeFailed>>

Step(r) ==
    \/ CacheHit(r)
    \/ CacheMiss(r)
    \/ CacheReadError(r)
    \/ ToBuffer(r)
    \/ WriteOpen(r)
    \/ \E n \in 1..2 : WriteData(r, n)
    \/ WriteError(r)
    \/ WriteDone(r)

Next ==
    \/ \E r \in Requests, q \in Fixtures : Receive(r, q)
    \/ \E r \in Requests : Step(r)

Spec == Init /\ [][Next]_vars

\* One request at a time: a request arrives only when no other is in flight.
Quiet == \A r \in Requests : pc[r] \in {"idle", "done"}

NextInSequence ==
    \/ \E r \in Requests, q \in Fixtures : Quiet /\ Receive(r, q)
    \/ \E r \in Requests : Step(r)

SpecInSequence == Init /\ [][NextInSequence]_vars

\* Every I/O operation started for a request completes: the continuation of
\* a request in flight is eventually run.
FairSpec == Spec /\ \A r \in Requests : WF_vars(Step(r))

(***************************************************************************)
(* Properties                                                              *)
(***************************************************************************)

Done(r) == pc[r] = "done"
Received(r) == pc[r] # "idle"

\* The TransformRequest of r: the five fields the handler works with.
Fields(r) == <<imageName(r), width(r), height(r), quality(r), format(r)>>

SourceDecodable(r) ==
    imageName(r) \in DOMAIN public /\ public[imageName(r)].kind = "image"

\* The transform pipeline succeeds on the parameters of r.
PipelineSucceeds(r) ==
    /\ SourceDecodable(r)
    /\ PipelineOptionsOk(width(r), height(r), quality(r), format(r))

\* The output of the transform pipeline on the parameters of r.
TransformOutput(r) ==
    Encode(public[imageName(r)], width(r), height(r), quality(r), format(r))

NoIoFault == \A r \in Requests : ~readFailed[r] /\ ~writeFailed[r]

\* C1: every response with status 200 carries the output of the transform
\* pipeline on the request's own (sourceName, width, height, quality,
\* format), on a hit as on a miss.
C1_BodyIsOwnTransform ==
    \A r \in Requests :
        Done(r) /\ status[r] = 200 =>
            PipelineSucceeds(r) /\ body[r] = TransformOutput(r)

\* C2 as stated: of two calls in sequence with identical parameters, the
\* second answers with the bytes of the first and runs no pipeline.
C2_SecondCallRunsNoPipeline ==
    \A r \in Requests :
        (r + 1 \in Requests /\ Done(r) /\ Done(r + 1)
           /\ Fields(r) = Fields(r + 1)) =>
            /\ body[r + 1] = body[r]
            /\ pipelineRuns[r + 1] = 0

\* C2, amended: of two calls in sequence with identical parameters, when the
\* first was served 200 and the cache read of the second does not fail, the
\* second is served 200 with the bytes and content type of the first and
\* runs no pipeline.
C2_SecondCallAfterServedFirst ==
    \A r \in Requests :
        (r + 1 \in Requests /\ Done(r) /\ Done(r + 1)
           /\ Fields(r) = Fields(r + 1)
           /\ status[r] = 200 /\ ~readFailed[r + 1]) =>
            /\ status[r + 1] = 200
            /\ body[r + 1] = body[r]
            /\ contentType[r + 1] = contentType[r]
            /\ pipelineRuns[r + 1] = 0
            /\ cacheWrites[r + 1] = 0

\* The first call missed, ran the pipeline and populated the cache, and the
\* second call was served.
C2_Witness ==
    \E r \in Requests :
        /\ r + 1 \in Requests /\ Done(r) /\ Done(r + 1)
        /\ Fields(r) = Fields(r + 1)
        /\ status[r] = 200 /\ pipelineRuns[r] = 1
        /\ ~readFailed[r + 1] /\ status[r + 1] = 200

\* C3: when all the requests have identical parameters, on which the
\* pipeline succeeds, and start on a cold cache with no I/O fault, then once
\* all are answered the cache holds the entry of their key and all
\* responses are the same.
C3_ConcurrentSameKey ==
    ( /\ \A r \in Requests :
            Done(r) /\ format(r) \in validFormats /\ PipelineSucceeds(r)
      /\ \A r1, r2 \in Requests : Fields(r1) = Fields(r2)
      /\ NoIoFault ) =>
        /\ \A r \in Requests : cacheKey(r) \in DOMAIN cache
        /\ \A r1, r2 \in Requests :
              status[r1] = status[r2] /\ body[r1] = body[r2]

\* C4: a cache read that is answered while another request is writing the
\* file of the same key returns a complete payload, that is the whole buffer
\* of some request, never an empty or truncated file.
C4_ReadNeverSeesPartialWrite ==
    [][\A r \in Requests :
          ( /\ CacheHit(r)
            /\ \E w \in Requests \ {r} :
                  pc[w] = "write" /\ cacheKey(w) = cacheKey(r) ) =>
              \E w \in Requests :
                  /\ optimizedImageBuffer[w] # <<>>
                  /\ body'[r] = optimizedImageBuffer[w]]_vars

\* C5: a request whose pipeline succeeded and whose cache write failed is
\* answered 200 with the bytes it computed.
C5_WriteFailureStillServes ==
    \A r \in Requests :
        Done(r) /\ writeFailed[r] =>
            status[r] = 200 /\ body[r] = optimizedImageBuffer[r]

\* The name holds the path-traversal sequence "..".
HasTraversal(name) ==
    \E i \in 1..(Len(name) - 1) : name[i] = "." /\ name[i + 1] = "."

\* C6: no file is read, in the cache or in the source directory, for a
\* request whose imageName holds a path-traversal sequence.
C6_TraversalReadsNothing ==
    \A r \in Requests :
        Received(r) /\ HasTraversal(imageName(r)) =>
            cacheReads[r] = 0 /\ sourceReads[r] = 0

\* C7: a request whose format is none of jpg, jpeg, png, webp is answered
\* 400 at once; it reads nothing, runs no pipeline and writes nothing.
C7_UnsupportedFormatRejected ==
    \A r \in Requests :
        Received(r) /\ format(r) \notin {"jpg", "jpeg", "png", "webp"} =>
            /\ Done(r) /\ status[r] = 400
            /\ body[r] = Text("Invalid format")
            /\ cacheWrites[r] = 0 /\ pipelineRuns[r] = 0
            /\ cacheReads[r] = 0 /\ sourceReads[r] = 0

\* A request with an unsupported format was answered while the cache held
\* an entry written for another request.
C7_Witness ==
    \E r \in Requests :
        /\ Done(r) /\ format(r) = "bmp" /\ status[r] = 400
        /\ DOMAIN cache # {}

\* C8: two requests have the same cache key exactly when they have the same
\* (sourceName, width, height, quality, format).
C8_KeyIdentifiesRequest ==
    \A r1, r2 \in Requests :
        Received(r1) /\ Received(r2) =>
            (Fields(r1) = Fields(r2) <=> cacheKey(r1) = cacheKey(r2))

\* The canonical token of a format: jpg and jpeg are one token.
Canonical(f) == IF f = "jpg" THEN "jpeg" ELSE f

\* C9: two requests that differ at most in jpg against jpeg have the same
\* cache key and, when both are served, the same content type.
C9_JpgIsJpeg ==
    \A r1, r2 \in Requests :
        ( /\ Received(r1) /\ Received(r2)
          /\ imageName(r1) = imageName(r2) /\ width(r1) = width(r2)
          /\ height(r1) = height(r2) /\ quality(r1) = quality(r2)
          /\ Canonical(format(r1)) = Canonical(format(r2)) ) =>
            /\ cacheKey(r1) = cacheKey(r2)
            /\ (status[r1] = 200 /\ status[r2] = 200) =>
                  contentType[r1] = contentType[r2]

\* C10: a request that ran the pipeline on parameters on which it fails is
\* answered 500 with the generic message and has written nothing to the
\* cache.
C10_PipelineFailure ==
    \A r \in Requests :
        Done(r) /\ pipelineRuns[r] > 0 /\ ~PipelineSucceeds(r) =>
            /\ status[r] = 500
            /\ body[r] = Text("Image processing error.")
            /\ cacheWrites[r] = 0

\* A pipeline failed on a missing or undecodable source, after the source
\* read, while the cache held an entry.
C10_Witness ==
    \E r \in Requests :
        /\ Done(r) /\ sourceReads[r] = 1 /\ ~SourceDecodable(r)
        /\ status[r] = 500
        /\ DOMAIN cache # {}

(***************************************************************************)
(* Parameter parsing (C11)                                                 *)
(***************************************************************************)

\* The decimal spelling of an integer, built digit by digit.
RECURSIVE NatSpelling(_)
NatSpelling(n) ==
    LET d == <<"0", "1", "2", "3", "4", "5", "6", "7", "8", "9">>[(n % 10) + 1]
    IN  IF n < 10 THEN <<d>> ELSE Append(NatSpelling(n \div 10), d)

Spelling(n) == IF n < 0 THEN <<"-">> \o NatSpelling(0 - n) ELSE NatSpelling(n)

\* The integers whose spellings the clients send.
IntegersSent == {-5, 0, 1, 3, 9, 12, 23, 99999}

\* The spellings of those integers.
SpellingSent == [n \in IntegersSent |-> Spelling(n)]

\* v is the spelling of the integer n.
Spells(v, n) == v = SpellingSent[n]

\* v begins with the spelling of n, and no digit follows it.
BeginsWith(v, n) ==
    LET s == SpellingSent[n]
        k == Len(s)
    IN  /\ Len(v) >= k
        /\ \A i \in 1..k : v[i] = s[i]
        /\ Len(v) > k => v[k + 1] \notin DecDigits

\* The value the claim gives a parameter: a supplied integer as it is, the
\* default for an absent or non-numeric value.
ClaimedValue(v, d) ==
    LET spelt == {n \in IntegersSent : Spells(v, n)}
    IN  IF spelt = {} THEN d ELSE CHOOSE n \in spelt : TRUE

\* The value of the amended claim: the integer the value begins with, unless
\* there is none or it is 0, and then the default.
LeadingValue(v, d) ==
    LET begun == {n \in IntegersSent \ {0} : BeginsWith(v, n)}
    IN  IF begun = {} THEN d ELSE CHOOSE n \in begun : TRUE

\* The request r works with the values w, h, q: they are its parsed
\* parameters, the cache file it writes is named by their fingerprint, the
\* buffer it computes is the pipeline's output on them, and options the
\* pipeline refuses end the request with 500 before the source is read.
WorksWith(r, w, h, q) ==
    /\ width(r) = w /\ height(r) = h /\ quality(r) = q
    /\ cacheWrites[r] > 0 =>
          generateCacheKey(Str(imageName(r)), w, h, q, format(r))
              \in DOMAIN cache
    /\ optimizedImageBuffer[r] # <<>> =>
          optimizedImageBuffer[r] =
              Encode(public[imageName(r)], w, h, q, format(r))
    /\ (Done(r) /\ pipelineRuns[r] > 0
          /\ ~PipelineOptionsOk(w, h, q, format(r))) =>
          status[r] = 500 /\ sourceReads[r] = 0

C12_ExactlyOneResponse ==
    /\ [](\A r \in Requests :
            /\ ~Done(r) => responses[r] = 0 /\ status[r] = 0
            /\ Done(r) => responses[r] = 1 /\ status[r] \in {200, 400, 500})
    /\ \A r \in Requests : Received(r) ~> Done(r)

\* A request whose cache write failed and one whose source is missing were
\* both answered.
C12_Witness ==
    \E r1, r2 \in Requests :
        /\ Done(r1) /\ writeFailed[r1] /\ responses[r1] = 1
        /\ Done(r2) /\ sourceReads[r2] = 1 /\ ~SourceDecodable(r2)
        /\ responses[r2] = 1

\* C13: a request whose cache read failed, on an absent file or on one that
\* exists, has run the pipeline; when the pipeline succeeds on its
\* parameters and its cache write does not fail, it is served 200 with the
\* bytes it computed, which are the pipeline's output.
C13_ReadFailureIsMiss ==
    \A r \in Requests :
        /\ readFailed[r] => pipelineRuns[r] = 1
        /\ ( /\ Done(r) /\ cacheReads[r] = 1
             /\ readFailed[r] \/ pipelineRuns[r] = 1
             /\ PipelineSucceeds(r) /\ ~writeFailed[r] ) =>
               /\ status[r] = 200
               /\ contentType[r] = "image/" \o format(r)
               /\ body[r] = optimizedImageBuffer[r]
               /\ body[r] = TransformOutput(r)

\* A request whose cache read failed on a file that exists was served.
C13_Witness ==
    \E r \in Requests : Done(r) /\ readFailed[r] /\ status[r] = 200

\* The bytes are a whole payload: the buffer some request computed.
WholePayload(bytes) ==
    \E o \in Requests :
        optimizedImageBuffer[o] # <<>> /\ bytes = optimizedImageBuffer[o]

\* r was answered from the cache.
ServedFromCache(r) == Done(r) /\ status[r] = 200 /\ pipelineRuns[r] = 0

\* C14: a request that arrives after the cache write of an earlier request
\* for the same key has failed, and that is answered from the cache, is
\* served a whole payload.
C14_FailedWriteLeavesNoPartialFile ==
    \A w, r \in Requests :
        ( /\ w < r /\ Done(w) /\ writeFailed[w]
          /\ cacheKey(w) = cacheKey(r) /\ ServedFromCache(r) ) =>
            WholePayload(body[r])

\* The file of key k holds the whole buffer of a request for that key.
CompleteEntry(k) ==
    /\ k \in DOMAIN cache
    /\ \E o \in Requests :
          /\ Received(o) /\ cacheKey(o) = k
          /\ optimizedImageBuffer[o] # <<>>
          /\ cache[k] = optimizedImageBuffer[o]

\* C15: once the file of a key holds a whole payload, no step changes what
\* can be read under that key.
C15_EntriesImmutable ==
    [][\A k \in DOMAIN cache :
          CompleteEntry(k) => k \in DOMAIN cache' /\ cache'[k] = cache[k]]_vars

\* Pipelines built for the requests 1..n, in total.
RECURSIVE PipelineRunsUpTo(_)
PipelineRunsUpTo(n) ==
    IF n = 0 THEN 0 ELSE pipelineRuns[n] + PipelineRunsUpTo(n - 1)

\* C16: when all the requests have identical parameters, on which the
\* pipeline succeeds, and start on a cold cache with no I/O fault, the
\* pipeline is invoked at most once in all.
C16_MissesCoalesced ==
    ( /\ \A r \in Requests :
            Received(r) /\ format(r) \in validFormats /\ PipelineSucceeds(r)
      /\ \A r1, r2 \in Requests : Fields(r1) = Fields(r2)
      /\ NoIoFault ) =>
        PipelineRunsUpTo(NumRequests) <= 1

\* r missed the cache: its cache read failed and it went on to the pipeline.
Missed(r) == Done(r) /\ pipelineRuns[r] > 0

\* What every answered request does on a hit, and what the two claims below
\* share for a miss: one cache read at most, one pipeline, one writeFile
\* call at most, and no write call without it.
IoBudget(r) ==
    /\ ServedFromCache(r) =>
          /\ cacheReads[r] = 1 /\ sourceReads[r] = 0
          /\ writeFileCalls[r] = 0 /\ cacheWrites[r] = 0
    /\ Missed(r) =>
          /\ cacheReads[r] <= 1 /\ pipelineRuns[r] = 1
          /\ writeFileCalls[r] <= 1
          /\ writeFileCalls[r] = 0 => cacheWrites[r] = 0

\* C17 as stated: a hit makes exactly one cache read and nothing else; a
\* miss makes exactly one source read, at most one cache read and at most
\* one cache write.
C17_IoBudget ==
    \A r \in Requests :
        /\ IoBudget(r)
        /\ Missed(r) => sourceReads[r] = 1

\* C17, amended: as stated, but a miss makes exactly one source read only
\* when the pipeline accepts its width, height and quality; when it refuses
\* them the source is not read at all.
C17_IoBudgetUnlessRefused ==
    \A r \in Requests :
        /\ IoBudget(r)
        /\ Missed(r) =>
              sourceReads[r] =
                  IF PipelineOptionsOk(width(r), height(r), quality(r),
                                       format(r))
                  THEN 1 ELSE 0

\* One request was answered from the cache, one after a miss that read the
\* source and wrote the cache.
C17_Witness ==
    \E r1, r2 \in Requests :
        /\ ServedFromCache(r1) /\ cacheReads[r1] = 1
        /\ Missed(r2) /\ sourceReads[r2] = 1 /\ writeFileCalls[r2] = 1
        /\ status[r2] = 200

\* The step is one of request r.
StepOf(r) == pc'[r] # pc[r] \/ position'[r] # position[r]

\* C18: a step of a request leaves the source directory as it is, creates
\* or changes no cache file but the one named by the request's own key, and
\* a request answered from the cache is sent the file of its own key.
C18_OtherKeysUntouched ==
    [][\A r \in Requests :
          StepOf(r) =>
            /\ public' = public
            /\ \A k \in (DOMAIN cache \cup DOMAIN cache') \ {cacheKey(r)'} :
                  /\ k \in DOMAIN cache /\ k \in DOMAIN cache'
                  /\ cache'[k] = cache[k]
            /\ (pc[r] = "readFile" /\ status'[r] = 200) =>
                  body'[r] = cache[cacheKey(r)]]_vars

\* Two requests with different keys have both written their cache files,
\* and each file holds the buffer of its own request.
C18_Witness ==
    \E r1, r2 \in Requests :
        /\ Done(r1) /\ Done(r2) /\ cacheKey(r1) # cacheKey(r2)
        /\ cacheWrites[r1] > 0 /\ cacheWrites[r2] > 0
        /\ cacheKey(r1) \in DOMAIN cache /\ cacheKey(r2) \in DOMAIN cache
        /\ cache[cacheKey(r1)] = optimizedImageBuffer[r1]
        /\ cache[cacheKey(r2)] = optimizedImageBuffer[r2]
====
